---- MODULE Spec2Model ----
(***************************************************************************)
(* A model of the SQL-chain engine of CovenantSQL (sqlchain/chain.go):     *)
(* the block store, the in-memory block index, the head state, the ack     *)
(* index, the ingest loop (processBlocks), the tick loop (runCurrentTurn,  *)
(* produceBlock) and Stop / re-Start (NewChainWithContext).                *)
(*                                                                         *)
(* chain.go is the only engine file at hand.  The runtime clock            *)
(* (c.rt), the block index (c.bi, newBlockNode), the ack index (c.ai)      *)
(* and types.Block.Verify live in files that are not at hand;              *)
(* they are modelled from the written specification and are marked so in   *)
(* MODEL_MAP.json.                                                         *)
(*                                                                         *)
(* Hashes.  A block hash is the sequence of the header codes on the path   *)
(* from genesis to the block, so two blocks have the same hash exactly     *)
(* when they have the same parent hash, producer, timestamp and body.      *)
(* The byte order of hashes (the order of keys in the block store within   *)
(* one height) is HashLess: it is unrelated to ancestry, as for a          *)
(* cryptographic hash.                                                     *)
(***************************************************************************)
EXTENDS Integers, Sequences, FiniteSets, TLC

(***************************************************************************)
(* Bounds of the model.                                                    *)
(***************************************************************************)
MaxTurn == 2
MaxBlocks == 2
MaxStash == 1
MaxFailed == 1

(***************************************************************************)
(* Configuration of the chain instance (Config, genesis block).            *)
(***************************************************************************)
Period == 2
GenesisTime == 2
QueryTTL == 1
BlockCacheTTL == 1

Server == "p0"
Outsider == "px"
NodeSeq == <<"p0", "p1", "p2", "px">>
Nodes == {NodeSeq[i] : i \in 1..Len(NodeSeq)}
InitPeers == <<"p0", "p1", "p2">>
PeerLists == {InitPeers, <<"p1", "p2">>}

MaxTime == GenesisTime + (MaxTurn + 1) * Period - 1
Times == 0..MaxTime

ZeroHash == <<>>
BogusHash == <<0>>

(***************************************************************************)
(* Responses and acknowledgements.  A response header carries the request  *)
(* timestamp and the response timestamp; an ack embeds the response it     *)
(* acknowledges, so its request and response timestamps are the            *)
(* response's.                                                             *)
(***************************************************************************)
RespA == [id |-> 1, req |-> GenesisTime, resp |-> GenesisTime + 1]
RespB == [id |-> 2, req |-> GenesisTime + 1, resp |-> GenesisTime + 2 * Period]
Responses == {RespA, RespB}
AckOf(r) == [resp |-> r]
Acks == {AckOf(r) : r \in Responses}
RespRequestTimestamp(r) == r.req
AckRequestTimestamp(a) == a.resp.req
AckResponseTimestamp(a) == a.resp.resp

(***************************************************************************)
(* runtime.getHeightFromTime: floor((t - genesis) / period).               *)
(***************************************************************************)
getHeightFromTime(t) == (t - GenesisTime) \div Period

(***************************************************************************)
(* heightToKey: the key of a height is the big-endian bytes of uint32(h),  *)
(* so keys compare as the unsigned values do: the heights from 0 up in     *)
(* their order, then the negative heights (2^32 + h) in their order.       *)
(***************************************************************************)
heightKeyLess(h1, h2) ==
    \/ h1 >= 0 /\ h2 < 0
    \/ (h1 >= 0) = (h2 >= 0) /\ h1 < h2

(***************************************************************************)
(* Block headers and hashes.                                               *)
(***************************************************************************)
NodeIdx(p) == CHOOSE i \in 1..Len(NodeSeq) : NodeSeq[i] = p

RECURSIVE RespBits(_)
RespBits(S) ==
    IF S = {} THEN 0
    ELSE LET r == CHOOSE x \in S : TRUE
         IN  2 ^ (r.id - 1) + RespBits(S \ {r})

NMask == 2 ^ Cardinality(Responses)

HeaderCode(p, ts, frs, txs, acks) ==
    1 + RespBits(txs)
      + NMask * (RespBits({a.resp : a \in acks})
      + NMask * (frs + (MaxFailed + 1) * ((MaxTime - ts) + (MaxTime + 1) * (NodeIdx(p) - 1))))

(* A signed block: hash is the hash field the block carries, valid says    *)
(* whether Verify accepts it (the hash field is the hash of the header,    *)
(* the merkle root matches the body and the signature is the signee's).    *)
NewBlock(parent, p, ts, frs, txs, acks) ==
    [hash |-> Append(parent, HeaderCode(p, ts, frs, txs, acks)),
     parent |-> parent, producer |-> p, ts |-> ts,
     frs |-> frs, txs |-> txs, acks |-> acks, valid |-> TRUE]

Forged(b, claimed) == [b EXCEPT !.hash = claimed, !.valid = FALSE]

GenesisBlock == NewBlock(ZeroHash, Server, GenesisTime, 0, {}, {})

Verify(b) == b.valid
VerifyAsGenesis(b) == b.valid /\ b.parent = ZeroHash

(* The byte order of two hashes. *)
RECURSIVE HashLess(_, _)
HashLess(a, b) ==
    IF a = <<>> THEN b # <<>>
    ELSE IF b = <<>> THEN FALSE
    ELSE IF a[Len(a)] # b[Len(b)] THEN a[Len(a)] < b[Len(b)]
    ELSE HashLess(SubSeq(a, 1, Len(a) - 1), SubSeq(b, 1, Len(b) - 1))

(***************************************************************************)
(* Block nodes and the block index.  A node pointer is the hash of the     *)
(* node it points to; the nil pointer is ZeroHash.                         *)
(***************************************************************************)
NilNode == [hash |-> ZeroHash, height |-> -1, count |-> -1, parent |-> ZeroHash, block |-> FALSE]

newBlockNode(h, b, parent) ==
    [hash |-> b.hash, height |-> h,
     count |-> IF parent = NilNode THEN 0 ELSE parent.count + 1,
     parent |-> parent.hash, block |-> TRUE]

addBlock(idx, node) == {n \in idx : n.hash # node.hash} \cup {node}

lookupNode(idx, h) ==
    IF \E n \in idx : n.hash = h THEN CHOOSE n \in idx : n.hash = h ELSE NilNode

Hashes(idx) == {n.hash : n \in idx}

(* blockNode.indexKey and the BLCK key of a block: height, then hash. *)
KeyLess(b1, b2) ==
    LET h1 == getHeightFromTime(b1.ts)
        h2 == getHeightFromTime(b2.ts)
    IN  heightKeyLess(h1, h2) \/ (h1 = h2 /\ HashLess(b1.hash, b2.hash))

(* The blocks of the store in the order the BLCK iterator yields them. *)
RECURSIVE blockIter(_)
blockIter(S) ==
    IF S = {} THEN <<>>
    ELSE LET b == CHOOSE x \in S : \A y \in S \ {x} : KeyLess(x, y)
         IN  <<b>> \o blockIter(S \ {b})

(***************************************************************************)
(* A node that pushBlock has built and made the head is reached through    *)
(* the head's pointer before addBlock has registered it: nodeOf resolves a *)
(* pointer to the node under construction pn, or to the node the index     *)
(* holds.                                                                  *)
(***************************************************************************)
nodeOf(idx, pn, ptr) ==
    IF pn # NilNode /\ pn.hash = ptr THEN pn ELSE lookupNode(idx, ptr)

(***************************************************************************)
(* pruneBlockCache: move from the head node to the first node whose count  *)
(* is at most head.count - blockCacheTTL, then drop cached bodies down the *)
(* parent pointers until a node without a body.  With blockCacheTTL >= 1   *)
(* the second loop starts below a head node that is still under            *)
(* construction.                                                           *)
(***************************************************************************)

(* A faulty first loop: it stays on the head node. *)
MoveToLast_Stay(idx, pn, ptr, lastCnt) == ptr

RECURSIVE MoveToLast(_, _, _, _)
MoveToLast(idx, pn, ptr, lastCnt) ==
    LET n == nodeOf(idx, pn, ptr)
    IN  IF n # NilNode /\ n.count > lastCnt
        THEN MoveToLast(idx, pn, n.parent, lastCnt)
        ELSE ptr

RECURSIVE PruneRefs(_, _)
PruneRefs(idx, ptr) ==
    LET n == lookupNode(idx, ptr)
    IN  IF n # NilNode /\ n.block
        THEN PruneRefs((idx \ {n}) \cup {[n EXCEPT !.block = FALSE]}, n.parent)
        ELSE idx

pruneBlockCache(idx, pn, headptr) ==
    LET hd == nodeOf(idx, pn, headptr)
    IN  IF hd = NilNode THEN idx
        ELSE PruneRefs(idx, MoveToLast(idx, pn, headptr, hd.count - BlockCacheTTL))

(***************************************************************************)
(* NewChainWithContext: read the blocks and rebuild the memory index.      *)
(* The result is [err, idx, last]: the error ("" for none), the index and  *)
(* the last node built.                                                    *)
(***************************************************************************)
RECURSIVE LoadBlocks(_, _, _)
LoadBlocks(blocks, idx, last) ==
    IF blocks = <<>> THEN [err |-> "", idx |-> idx, last |-> last]
    ELSE LET block == Head(blocks)
             isFirst == last = NilNode
             fast == ~isFirst /\ block.parent = last.hash
             parent == IF isFirst THEN NilNode
                       ELSE IF fast THEN last
                       ELSE lookupNode(idx, block.parent)
             node == newBlockNode(getHeightFromTime(block.ts), block, parent)
         IN  IF isFirst /\ ~VerifyAsGenesis(block)
             THEN [err |-> "GenesisVerify", idx |-> idx, last |-> last]
             ELSE IF fast /\ ~Verify(block)
             THEN [err |-> "BlockVerify", idx |-> idx, last |-> last]
             ELSE IF ~isFirst /\ ~fast /\ parent = NilNode
             THEN [err |-> "ErrParentNotFound", idx |-> idx, last |-> last]
             ELSE LoadBlocks(Tail(blocks), addBlock(idx, node), node)

NewHead(node) == [node |-> node.hash, Head |-> node.hash, Height |-> node.height]

(***************************************************************************)
(* Historical fetches.                                                     *)
(***************************************************************************)

(* A faulty ancestor: it walks until node.height < height. *)
RECURSIVE ancestor_Below(_, _, _, _)
ancestor_Below(idx, pn, ptr, height) ==
    LET n == nodeOf(idx, pn, ptr)
    IN  IF n = NilNode THEN NilNode
        ELSE IF n.height < height THEN n
        ELSE ancestor_Below(idx, pn, n.parent, height)

(* blockNode.ancestor: walk the parent pointers until node.height <= height. *)
RECURSIVE ancestor(_, _, _, _)
ancestor(idx, pn, ptr, height) ==
    LET n == nodeOf(idx, pn, ptr)
    IN  IF n = NilNode THEN NilNode
        ELSE IF n.height <= height THEN n
        ELSE ancestor(idx, pn, n.parent, height)

(* A faulty ancestorByCount: it walks until node.count <= count. *)
RECURSIVE ancestorByCount_AtMost(_, _, _, _)
ancestorByCount_AtMost(idx, pn, ptr, count) ==
    LET n == nodeOf(idx, pn, ptr)
    IN  IF n = NilNode THEN NilNode
        ELSE IF n.count <= count THEN n
        ELSE ancestorByCount_AtMost(idx, pn, n.parent, count)

(* blockNode.ancestorByCount: walk the parent pointers until node.count = count. *)
RECURSIVE ancestorByCount(_, _, _, _)
ancestorByCount(idx, pn, ptr, count) ==
    LET n == nodeOf(idx, pn, ptr)
    IN  IF n = NilNode THEN NilNode
        ELSE IF n.count = count THEN n
        ELSE ancestorByCount(idx, pn, n.parent, count)

(* The nil block pointer. *)
NilBlock == [hash |-> ZeroHash, parent |-> ZeroHash, producer |-> "", ts |-> 0,
             frs |-> 0, txs |-> {}, acks |-> {}, valid |-> FALSE]

(* fetchBlockByIndexKey: Get the value under the node's key and decode it; *)
(* fail is the failure of the read.  The result is [block, err].           *)
fetchBlockByIndexKey(st, n, fail) ==
    LET S == {b \in st : b.hash = n.hash /\ getHeightFromTime(b.ts) = n.height}
    IN  IF fail THEN [block |-> NilBlock, err |-> "ErrStorage"]
        ELSE IF S = {} THEN [block |-> NilBlock, err |-> "ErrNotFound"]
        ELSE [block |-> CHOOSE b \in S : TRUE, err |-> ""]

(* FetchBlock: [block, err, realCount, height], the last two unused. *)
FetchBlock(hd, idx, pn, st, height, fail) ==
    LET n == ancestor(idx, pn, hd.node, height)
        r == fetchBlockByIndexKey(st, n, fail)
    IN  IF n = NilNode
        THEN [block |-> NilBlock, err |-> "", realCount |-> 0, height |-> 0]
        ELSE [block |-> r.block, err |-> r.err, realCount |-> 0, height |-> 0]

(* FetchBlockByCount: [block, err, realCount, height]. *)
FetchBlockByCount(hd, idx, pn, st, count, fail) ==
    LET n == IF count < 0 THEN nodeOf(idx, pn, hd.node)
             ELSE ancestorByCount(idx, pn, hd.node, count)
        r == fetchBlockByIndexKey(st, n, fail)
    IN  IF n = NilNode
        THEN [block |-> NilBlock, err |-> "", realCount |-> 0, height |-> 0]
        ELSE IF r.err # ""
        THEN [block |-> r.block, err |-> r.err, realCount |-> 0, height |-> 0]
        ELSE [block |-> r.block, err |-> "", realCount |-> n.count, height |-> n.height]

(***************************************************************************)
(* Billing.  A block is billed by its signee, its query txs and its failed *)
(* requests (its view); a query tx is [user, miner, read, rowCount,        *)
(* affectedRows], a failed request [user, queries], queries being the      *)
(* number of its queries.  The two maps of billing are kept with their     *)
(* keys: um is usersMap, mm is minersMap, uk the keys of usersMap and mk   *)
(* the (user, miner) keys of minersMap.                                    *)
(***************************************************************************)
UpdatePeriod == 2

BillUsers == {"u1", "u2"}

NoCosts == [um |-> [u \in BillUsers |-> 0],
            mm |-> [u \in BillUsers |-> [m \in Nodes |-> 0]],
            uk |-> {}, mk |-> {}]

(* One query tx: credit rowCount of a read query, affectedRows of another. *)
creditTx(st, tx) ==
    LET amount == IF tx.read THEN tx.rowCount ELSE tx.affectedRows
    IN  [um |-> [st.um EXCEPT ![tx.user] = @ + amount],
         mm |-> [st.mm EXCEPT ![tx.user][tx.miner] = @ + amount],
         uk |-> st.uk \cup {tx.user},
         mk |-> st.mk \cup {<<tx.user, tx.miner>>}]

(* One failed request: when minersMap[user] has no key for the signee of   *)
(* the block, minersMap[user] is made anew; then len(queries) is credited. *)
creditFailed(st, signee, req) ==
    LET fresh == <<req.user, signee>> \notin st.mk
        mm1 == IF fresh THEN [st.mm EXCEPT ![req.user] = [m \in Nodes |-> 0]] ELSE st.mm
        mk1 == IF fresh THEN {k \in st.mk : k[1] # req.user} ELSE st.mk
    IN  [um |-> [st.um EXCEPT ![req.user] = @ + req.queries],
         mm |-> [mm1 EXCEPT ![req.user][signee] = @ + req.queries],
         uk |-> st.uk \cup {req.user},
         mk |-> mk1 \cup {<<req.user, signee>>}]

RECURSIVE creditTxs(_, _)
creditTxs(st, txs) ==
    IF txs = <<>> THEN st ELSE creditTxs(creditTx(st, Head(txs)), Tail(txs))

RECURSIVE creditFailedReqs(_, _, _)
creditFailedReqs(st, signee, reqs) ==
    IF reqs = <<>> THEN st
    ELSE creditFailedReqs(creditFailed(st, signee, Head(reqs)), signee, Tail(reqs))

(* The loop of billing over the views of the node and its ancestors, the   *)
(* node first: at most update-period blocks.                               *)
RECURSIVE creditBlocks(_, _, _)
creditBlocks(st, views, i) ==
    IF i >= UpdatePeriod \/ views = <<>> THEN st
    ELSE LET v == Head(views)
         IN  creditBlocks(creditFailedReqs(creditTxs(st, v.QueryTxs), v.signee, v.FailedReqs),
                          Tail(views), i + 1)

(* billing on the views: the UpdateBilling, users given by their address. *)
billing(views) ==
    LET st == creditBlocks(NoCosts, views, 0)
    IN  [receiver |-> "db",
         users |-> [u \in st.uk |->
                      [cost |-> st.um[u],
                       miners |-> [m \in {x \in Nodes : <<u, x>> \in st.mk} |-> st.mm[u][m]]]]]

(* The view of a block of the chain: every query is a read of user u1 that *)
(* returned one row, answered by p1 (RespA) or p2 (RespB); every failed    *)
(* request is one query of user u1.                                        *)
QueryTxOf(r) == [user |-> "u1", miner |-> IF r = RespA THEN "p1" ELSE "p2",
                 read |-> TRUE, rowCount |-> 1, affectedRows |-> 0]

RECURSIVE FailedReqsOf(_)
FailedReqsOf(n) == IF n = 0 THEN <<>> ELSE <<[user |-> "u1", queries |-> 1]>> \o FailedReqsOf(n - 1)

BillingView(b) ==
    [signee |-> b.producer,
     QueryTxs |-> (IF RespA \in b.txs THEN <<QueryTxOf(RespA)>> ELSE <<>>)
                     \o (IF RespB \in b.txs THEN <<QueryTxOf(RespB)>> ELSE <<>>),
     FailedReqs |-> FailedReqsOf(b.frs)]

(* The blocks billing reads from node ptr on: the cached block of a node,  *)
(* or FetchBlock(node.height) when the cache has been pruned.  The result  *)
(* is [views, err].                                                        *)
RECURSIVE billingBlocks(_, _, _, _, _, _, _)
billingBlocks(hd, idx, pn, st, ptr, i, fail) ==
    LET n == nodeOf(idx, pn, ptr)
        r == IF n.block THEN fetchBlockByIndexKey(st, n, FALSE)
             ELSE FetchBlock(hd, idx, pn, st, n.height, fail)
        rest == billingBlocks(hd, idx, pn, st, n.parent, i + 1, fail)
    IN  IF i >= UpdatePeriod \/ n = NilNode THEN [views |-> <<>>, err |-> ""]
        ELSE IF r.err # "" THEN [views |-> <<>>, err |-> r.err]
        ELSE IF rest.err # "" THEN rest
        ELSE [views |-> <<BillingView(r.block)>> \o rest.views, err |-> ""]

(***************************************************************************)
(* The ack index: the pending responses and the registered acks, each      *)
(* filed under the height of its bucket.  ai is [resps, acks], two sets    *)
(* of <<height, item>> pairs.                                              *)
(***************************************************************************)
EmptyAckIndex == [resps |-> {}, acks |-> {}]

ai_addResponse(a, h, r) == [a EXCEPT !.resps = @ \cup {<<h, r>>}]

ai_registerOk(a, h, ack) == <<h, ack.resp>> \in a.resps

ai_register(a, h, ack) ==
    IF ai_registerOk(a, h, ack) THEN [a EXCEPT !.acks = @ \cup {<<h, ack>>}] ELSE a

ai_remove(a, h, ack) == [a EXCEPT !.acks = @ \ {<<h, ack>>}]

ai_acks(a, h) == {e[2] : e \in {x \in a.acks : x[1] < h}}

ai_advance(a, minValid) ==
    [resps |-> {e \in a.resps : e[1] >= minValid},
     acks |-> {e \in a.acks : e[1] >= minValid}]

(***************************************************************************)
(* The runtime clock.                                                      *)
(***************************************************************************)
getMinValidHeight(hd) == hd.Height - QueryTTL

queryTimeIsExpired(t, hd) == getHeightFromTime(t) < getMinValidHeight(hd)

(* Peers.Find: the 0-based index of a node in the peer list, -1 if absent. *)
Find(prs, p) ==
    IF \E i \in 1..Len(prs) : prs[i] = p
    THEN (CHOOSE i \in 1..Len(prs) : prs[i] = p) - 1
    ELSE -1

isMyTurn(nt, prs) ==
    /\ Find(prs, Server) >= 0
    /\ (nt - 1) % Len(prs) = Find(prs, Server)

(* nextTick: the target time of the next turn. *)
TurnTime(nt) == GenesisTime + nt * Period

(***************************************************************************)
(* Chain.AddResponse, Chain.register, Chain.remove: the bucket is the      *)
(* height of the request timestamp.                                        *)
(***************************************************************************)
AddResponse(a, r) == ai_addResponse(a, getHeightFromTime(RespRequestTimestamp(r)), r)

registerOk(a, ack) == ai_registerOk(a, getHeightFromTime(AckRequestTimestamp(ack)), ack)

register(a, ack) == ai_register(a, getHeightFromTime(AckRequestTimestamp(ack)), ack)

(* A faulty variant of remove: the bucket is the height of the response    *)
(* timestamp (the height pushAckedQuery files the ack under in the query   *)
(* store).                                                                 *)
remove_ByResponseTime(a, ack) == ai_remove(a, getHeightFromTime(AckResponseTimestamp(ack)), ack)

remove(a, ack) == ai_remove(a, getHeightFromTime(AckRequestTimestamp(ack)), ack)

RECURSIVE AddResponses(_, _)
AddResponses(a, txs) ==
    IF txs = {} THEN a
    ELSE LET r == CHOOSE x \in txs : TRUE
         IN  AddResponses(AddResponse(a, r), txs \ {r})

RECURSIVE RemoveAcks(_, _)
RemoveAcks(a, acks) ==
    IF acks = {} THEN a
    ELSE LET k == CHOOSE x \in acks : TRUE
         IN  RemoveAcks(remove(a, k), acks \ {k})

(***************************************************************************)
(* Faulty variants of the checks of CheckAndPushNewBlock.  Each drops or   *)
(* moves one check; a property that depends on the check must fail when    *)
(* the variant takes the place of checkNewBlock.                           *)
(***************************************************************************)
(* No parent check. *)
checkNewBlock_NoParentCheck(block, hd, prs, nt, replay) ==
    LET height == getHeightFromTime(block.ts)
        total == Len(prs)
        next == IF total > 0 THEN (nt - 1) % total ELSE -1
        index == Find(prs, block.producer)
    IN  IF hd.Height = height /\ hd.Head = block.hash THEN "applied"
        ELSE IF ~Verify(block) THEN "ErrVerify"
        ELSE IF block.producer = Server THEN "push"
        ELSE IF index < 0 THEN "ErrUnknownProducer"
        ELSE IF index # next THEN "ErrInvalidProducer"
        ELSE IF ~replay THEN "ErrReplay"
        ELSE "push"

(* The signature is verified before the parent is checked. *)
checkNewBlock_VerifyFirst(block, hd, prs, nt, replay) ==
    LET height == getHeightFromTime(block.ts)
        total == Len(prs)
        next == IF total > 0 THEN (nt - 1) % total ELSE -1
        index == Find(prs, block.producer)
    IN  IF hd.Height = height /\ hd.Head = block.hash THEN "applied"
        ELSE IF ~Verify(block) THEN "ErrVerify"
        ELSE IF block.parent # hd.Head THEN "ErrInvalidBlock"
        ELSE IF block.producer = Server THEN "push"
        ELSE IF index < 0 THEN "ErrUnknownProducer"
        ELSE IF index # next THEN "ErrInvalidProducer"
        ELSE IF ~replay THEN "ErrReplay"
        ELSE "push"

(* No rotation slot check. *)
checkNewBlock_NoSlotCheck(block, hd, prs, nt, replay) ==
    LET height == getHeightFromTime(block.ts)
        index == Find(prs, block.producer)
    IN  IF hd.Height = height /\ hd.Head = block.hash THEN "applied"
        ELSE IF block.parent # hd.Head THEN "ErrInvalidBlock"
        ELSE IF ~Verify(block) THEN "ErrVerify"
        ELSE IF block.producer = Server THEN "push"
        ELSE IF index < 0 THEN "ErrUnknownProducer"
        ELSE IF ~replay THEN "ErrReplay"
        ELSE "push"

(* No membership check: a producer that is not found is at no slot. *)
checkNewBlock_NoFindCheck(block, hd, prs, nt, replay) ==
    LET height == getHeightFromTime(block.ts)
        total == Len(prs)
        next == IF total > 0 THEN (nt - 1) % total ELSE -1
        index == Find(prs, block.producer)
    IN  IF hd.Height = height /\ hd.Head = block.hash THEN "applied"
        ELSE IF block.parent # hd.Head THEN "ErrInvalidBlock"
        ELSE IF ~Verify(block) THEN "ErrVerify"
        ELSE IF block.producer = Server THEN "push"
        ELSE IF index # next THEN "ErrInvalidProducer"
        ELSE IF ~replay THEN "ErrReplay"
        ELSE "push"

(* The short circuit for the server's own blocks comes first. *)
checkNewBlock_SelfFirst(block, hd, prs, nt, replay) ==
    LET height == getHeightFromTime(block.ts)
        total == Len(prs)
        next == IF total > 0 THEN (nt - 1) % total ELSE -1
        index == Find(prs, block.producer)
    IN  IF block.producer = Server /\ Verify(block) THEN "push"
        ELSE IF hd.Height = height /\ hd.Head = block.hash THEN "applied"
        ELSE IF block.parent # hd.Head THEN "ErrInvalidBlock"
        ELSE IF ~Verify(block) THEN "ErrVerify"
        ELSE IF index < 0 THEN "ErrUnknownProducer"
        ELSE IF index # next THEN "ErrInvalidProducer"
        ELSE IF ~replay THEN "ErrReplay"
        ELSE "push"

(***************************************************************************)
(* CheckAndPushNewBlock, up to the call of pushBlock: the verdict on a     *)
(* block given the head, the peer list and next-turn read on entry.        *)
(* "applied" is the early return of nil, "push" a call of pushBlock        *)
(* (after a replay for a peer's block: replay says whether it succeeds).   *)
(***************************************************************************)
checkNewBlock(block, hd, prs, nt, replay) ==
    LET height == getHeightFromTime(block.ts)
        total == Len(prs)
        next == IF total > 0 THEN (nt - 1) % total ELSE -1
        index == Find(prs, block.producer)
    IN  IF hd.Height = height /\ hd.Head = block.hash THEN "applied"
        ELSE IF block.parent # hd.Head THEN "ErrInvalidBlock"
        ELSE IF ~Verify(block) THEN "ErrVerify"
        ELSE IF block.producer = Server THEN "push"
        ELSE IF index < 0 THEN "ErrUnknownProducer"
        ELSE IF index # next THEN "ErrInvalidProducer"
        ELSE IF ~replay THEN "ErrReplay"
        ELSE "push"

(***************************************************************************)
(* State.                                                                  *)
(*   store     the BLCK entries of the block store (bdb)                   *)
(*   tdb       the QACK entries of the query store: <<height, ack>> keys   *)
(*   index     the block index (bi): a set of nodes                        *)
(*   head      the head state {node, Head, Height} of the runtime          *)
(*   ai        the ack index                                               *)
(*   nextTurn  the next-turn counter of the runtime                        *)
(*   peers     the peer list of the runtime                                *)
(*   run       "up" (started), "down" (stopped), "failed" (re-Start        *)
(*             returned an error)                                          *)
(*   ipc, iblock, ierr, pnode   the ingest loop (processBlocks): its       *)
(*             position, the block it holds, the error returned to it and  *)
(*             the node pushBlock has built                                *)
(*   stash, tasks   the stash of processBlocks and the stashes being       *)
(*             returned by returnStash goroutines                          *)
(*   heights   the height-advance channel (buffer of one)                  *)
(*   tpc, tblock   the tick loop (mainCycle): its position and the block   *)
(*             produceBlock is sending                                     *)
(*   vcall     the call of VerifyAndPushAckedQuery that has just returned  *)
(*   clock     the height of the wall clock, height-of(now)                *)
(*   fcall     the call of FetchBlock or FetchBlockByCount that has just   *)
(*             returned                                                    *)
(*   bill      the billing round of the ingest loop                        *)
(*   bwin      a billing window handed to billing on its own               *)
(***************************************************************************)
VARIABLES store, tdb, index, head, ai, nextTurn, peers, run,
          ipc, iblock, ierr, pnode, stash, tasks, heights, tpc, tblock, vcall, clock,
          fcall, bill, bwin

vars == <<store, tdb, index, head, ai, nextTurn, peers, run,
          ipc, iblock, ierr, pnode, stash, tasks, heights, tpc, tblock, vcall, clock,
          fcall, bill, bwin>>

chainVars == <<store, index, head>>
ingestVars == <<ipc, iblock, ierr, pnode>>
tickVars == <<tpc, tblock>>
auxVars == <<fcall, bill, bwin>>

NoCall == [busy |-> FALSE, ack |-> AckOf(RespA), minValid |-> 0, err |-> ""]

NoFetch == [busy |-> FALSE, op |-> "", arg |-> 0,
            block |-> NilBlock, err |-> "", realCount |-> 0, height |-> 0]

(* No UpdateBilling (the nil pointer), and no billing round. *)
NilUpdateBilling == [receiver |-> "", users |-> [u \in {} |-> 0]]

NoBill == [busy |-> FALSE, ub |-> NilUpdateBilling, failed |-> "", sent |-> FALSE]

GenesisNode == newBlockNode(getHeightFromTime(GenesisBlock.ts), GenesisBlock, NilNode)

(* The state after NewChainWithContext on fresh files with the peer list   *)
(* prs of the configuration: genesis is pushed.                            *)
InitWith(prs) ==
    /\ store = {GenesisBlock}
    /\ tdb = {}
    /\ index = {GenesisNode}
    /\ head = NewHead(GenesisNode)
    /\ ai = EmptyAckIndex
    /\ nextTurn = 1
    /\ peers = prs
    /\ run = "up"
    /\ ipc = "idle" /\ iblock = NilBlock /\ ierr = "" /\ pnode = NilNode
    /\ stash = <<>> /\ tasks = <<>> /\ heights = <<>>
    /\ tpc = "idle" /\ tblock = NilBlock
    /\ vcall = NoCall
    /\ clock = 0
    /\ fcall = NoFetch
    /\ bill = NoBill

InitChain == InitWith(InitPeers)

Init == InitChain /\ bwin = <<>>

(* A chain of two peers, the server the second of them: turn 1 is the      *)
(* peer's, turn 2 the server's.                                            *)
SecondPeers == <<"p1", "p0">>

InitSecond == InitWith(SecondPeers) /\ bwin = <<>>

(***************************************************************************)
(* The blocks a peer may send (AdviseNewBlock, or the reply to the         *)
(* FetchBlock call of syncHead, which reaches the ingest loop the same     *)
(* way).  A peer cannot sign for the local server: the blocks of the       *)
(* server that a peer sends are blocks the server has produced.            *)
(*   PeerBlocks varies the header: signed blocks of the current turn on    *)
(*     the head, on another known block and on an unknown parent, by       *)
(*     members of the peer list and by an outsider; forged blocks (the     *)
(*     signature does not verify) carrying the hash of the block they      *)
(*     copy or the hash of the head; any stored block again.               *)
(*   SlotBlocks are signed blocks on the head, or on an unknown parent,    *)
(*     at either timestamp of the current turn.                            *)
(*   TxBlocks varies the body of signed blocks on the head.                *)
(***************************************************************************)
Senders == Nodes \ {Server}
CurrentTimes == {t \in Times : getHeightFromTime(t) = nextTurn - 1}
CurrentTick == TurnTime(nextTurn - 1)

OtherParents == {lookupNode(index, head.node).parent, BogusHash}

PeerBlocks ==
    LET onHead == {NewBlock(head.Head, p, CurrentTick, 0, {}, {}) : p \in Senders}
        offHead == {NewBlock(pa, p, CurrentTick, 0, {}, {}) :
                       pa \in OtherParents, p \in Senders \ {Outsider}}
        copied == {b \in onHead \cup offHead : b.producer = "p1"}
    IN  onHead \cup offHead \cup store
               \cup {Forged(b, b.hash) : b \in copied}
               \cup {Forged(b, head.Head) : b \in copied}

SlotBlocks ==
    {NewBlock(pa, p, t, 0, {}, {}) :
        pa \in {head.Head, BogusHash}, p \in Senders \ {Outsider}, t \in CurrentTimes}

Payloads == {<<{}, {AckOf(RespB)}>>}

RpcResponses == {RespB}

TxBlocks ==
    {NewBlock(head.Head, p, CurrentTick, 0, pl[1], pl[2]) :
        p \in Senders \ {Outsider}, pl \in Payloads}

(***************************************************************************)
(* processBlocks, case block := <-c.blocks, to the first read of           *)
(* next-turn: a block of a later turn is stashed.  Bounds: a block that is *)
(* not in the store is taken while the store holds at most MaxBlocks       *)
(* blocks besides genesis, and the stash holds at most MaxStash blocks.    *)
(***************************************************************************)
Recv(b) ==
    /\ run \in {"up", "stopping"} /\ ipc = "idle"
    /\ b \in store \/ Cardinality(store) <= MaxBlocks
    /\ IF getHeightFromTime(b.ts) > nextTurn - 1
       THEN /\ Len(stash) < MaxStash
            /\ stash' = Append(stash, b)
            /\ UNCHANGED <<ipc, iblock>>
       ELSE /\ ipc' = "past" /\ iblock' = b
            /\ UNCHANGED stash
    /\ UNCHANGED <<ierr, pnode>>

(* A block sent by a peer. *)
RecvFrom(U) ==
    /\ run = "up"
    /\ \E b \in U : Recv(b)
    /\ UNCHANGED <<chainVars, tdb, ai, nextTurn, peers, run, tasks, heights, tickVars, vcall, clock, auxVars>>

RecvAdvised == RecvFrom(PeerBlocks)

RecvAdvisedSlot == RecvFrom(SlotBlocks)

RecvAdvisedTx == RecvFrom(TxBlocks)

RecvAdvisedHead == RecvFrom({b \in SlotBlocks : b.parent = head.Head})

(* Signed blocks on the head of the turn to come, advised ahead of the     *)
(* local clock: they are stashed.                                          *)
FutureBlocks ==
    {NewBlock(head.Head, p, t, 0, {}, {}) :
        p \in Senders \ {Outsider}, t \in {TurnTime(nextTurn)} \cap Times}

RecvAdvisedFuture == RecvFrom(FutureBlocks)

(* A stored block, advised again. *)
RecvAdvisedAgain == RecvFrom(store)

(* The block produceBlock sends on c.blocks. *)
RecvProduced ==
    /\ tpc = "send"
    /\ Recv(tblock)
    /\ tpc' = "defer" /\ tblock' = NilBlock
    /\ UNCHANGED <<chainVars, tdb, ai, nextTurn, peers, run, tasks, heights, vcall, clock, auxVars>>

(* A block a returnStash goroutine sends on c.blocks. *)
RecvStash ==
    /\ \E i \in 1..Len(tasks) :
          /\ Recv(Head(tasks[i]))
          /\ tasks' = IF Len(tasks[i]) = 1
                      THEN SubSeq(tasks, 1, i - 1) \o SubSeq(tasks, i + 1, Len(tasks))
                      ELSE [tasks EXCEPT ![i] = Tail(@)]
    /\ UNCHANGED <<chainVars, tdb, ai, nextTurn, peers, run, heights, tickVars, vcall, clock, auxVars>>

(* processBlocks, the second read of next-turn: a block of a past turn is dropped. *)
IngestPast ==
    /\ ipc = "past"
    /\ IF getHeightFromTime(iblock.ts) < nextTurn - 1
       THEN ipc' = "idle" /\ iblock' = NilBlock
       ELSE ipc' = "capnb" /\ UNCHANGED iblock
    /\ UNCHANGED <<chainVars, tdb, ai, nextTurn, peers, run, ierr, pnode,
                   stash, tasks, heights, tickVars, vcall, clock, auxVars>>

(* CheckAndPushNewBlock up to pushBlock; ierr is the error it returns. *)
CheckAndPushNewBlock ==
    /\ ipc = "capnb"
    /\ \E replay \in BOOLEAN :
          LET v == checkNewBlock(iblock, head, peers, nextTurn, replay)
          IN  /\ ipc' = CASE v = "applied" -> "applied"
                          [] v = "push" -> "put"
                          [] OTHER -> "failed"
              /\ ierr' = IF v \in {"applied", "push"} THEN "" ELSE v
    /\ UNCHANGED <<chainVars, tdb, ai, nextTurn, peers, run, iblock, pnode,
                   stash, tasks, heights, tickVars, vcall, clock, auxVars>>

(* A faulty variant of the first step of pushBlock: the head is swapped    *)
(* before the Put, so a failed Put leaves the new head.                    *)
PushPut_HeadFirst ==
    /\ ipc = "put"
    /\ \/ /\ store' = store \cup {iblock}
          /\ pnode' = newBlockNode(getHeightFromTime(iblock.ts), iblock,
                                   lookupNode(index, head.node))
          /\ ipc' = "sethead"
          /\ UNCHANGED <<head, ierr, iblock>>
       \/ /\ ierr' = "ErrStorage"
          /\ ipc' = "failed"
          /\ head' = NewHead(newBlockNode(getHeightFromTime(iblock.ts), iblock,
                                          lookupNode(index, head.node)))
          /\ UNCHANGED <<store, pnode, iblock>>
    /\ UNCHANGED <<tdb, index, ai, nextTurn, peers, run,
                   stash, tasks, heights, tickVars, vcall, clock, auxVars>>

(* pushBlock: build the node, encode the block and put it in the store. *)
PushPut ==
    /\ ipc = "put"
    /\ \/ /\ store' = store \cup {iblock}
          /\ pnode' = newBlockNode(getHeightFromTime(iblock.ts), iblock,
                                   lookupNode(index, head.node))
          /\ ipc' = "sethead"
          /\ UNCHANGED <<ierr, iblock>>
       \/ /\ ierr' = "ErrStorage"
          /\ ipc' = "failed"
          /\ UNCHANGED <<store, pnode, iblock>>
    /\ UNCHANGED <<tdb, index, head, ai, nextTurn, peers, run,
                   stash, tasks, heights, tickVars, vcall, clock, auxVars>>

(* pushBlock: c.rt.setHead(head). *)
PushSetHead ==
    /\ ipc = "sethead"
    /\ head' = NewHead(pnode)
    /\ ipc' = "addblock"
    /\ UNCHANGED <<store, tdb, index, ai, nextTurn, peers, run, iblock, ierr, pnode,
                   stash, tasks, heights, tickVars, vcall, clock, auxVars>>

(* pushBlock: c.bi.addBlock(node). *)
PushAddBlock ==
    /\ ipc = "addblock"
    /\ index' = addBlock(index, pnode)
    /\ ipc' = "acks"
    /\ UNCHANGED <<store, tdb, head, ai, nextTurn, peers, run, iblock, ierr, pnode,
                   stash, tasks, heights, tickVars, vcall, clock, auxVars>>

(* pushBlock: add the responses of the query txs, remove the acks. *)
PushAcks ==
    /\ ipc = "acks"
    /\ ai' = RemoveAcks(AddResponses(ai, iblock.txs), iblock.acks)
    /\ ipc' = "pushed" /\ pnode' = NilNode
    /\ UNCHANGED <<chainVars, tdb, nextTurn, peers, run, iblock, ierr,
                   stash, tasks, heights, tickVars, vcall, clock, auxVars>>

(***************************************************************************)
(* processBlocks after CheckAndPushNewBlock returned nil, because the      *)
(* block was pushed (ipc = "pushed") or because it is the head already     *)
(* (ipc = "applied"): when the count of the head is a multiple of          *)
(* update-period, a billing round.  f is the step of the round that fails: *)
(*   "read"     FetchBlock, for a node whose cached block has been pruned  *)
(*   "addr"     PubKeyHash of a signee, when the window has a query tx or  *)
(*              a failed request                                           *)
(*   "receiver" databaseID.AccountAddress, at the end of billing           *)
(*   "nonce", "sign", "send"   the nonce call, ub.Sign, the AddTx call     *)
(* After a failed "read" or "addr" billing has returned nil and an error:  *)
(* the error is logged and ub.Nonce = nonceResp.Nonce dereferences nil,    *)
(* the panic ends the process (run = "crashed").  The other errors are     *)
(* logged and the round goes on.                                           *)
(***************************************************************************)
BillFailures == {"", "read", "addr", "receiver", "nonce", "sign", "send"}

IngestDoneWith(Failures) ==
    /\ ipc \in {"pushed", "applied"}
    /\ IF nodeOf(index, pnode, head.node).count % UpdatePeriod # 0
       THEN /\ ipc' = "idle" /\ iblock' = NilBlock
            /\ UNCHANGED <<run, tickVars, bill>>
       ELSE \E f \in Failures :
               LET w == billingBlocks(head, index, pnode, store, head.node, 0, f = "read")
                   billed == \E i \in 1..Len(w.views) :
                                w.views[i].QueryTxs # <<>> \/ w.views[i].FailedReqs # <<>>
                   failed == IF w.err # "" THEN "read"
                             ELSE IF f = "addr" /\ billed THEN "addr"
                             ELSE IF f \in {"receiver", "nonce", "sign", "send"} THEN f
                             ELSE ""
               IN  IF failed \in {"read", "addr"}
                   THEN /\ bill' = [busy |-> TRUE, ub |-> NilUpdateBilling,
                                    failed |-> failed, sent |-> FALSE]
                        /\ run' = "crashed" /\ ipc' = "crashed"
                        /\ tpc' = "crashed" /\ tblock' = NilBlock
                        /\ UNCHANGED iblock
                   ELSE /\ bill' = [busy |-> TRUE, ub |-> billing(w.views),
                                    failed |-> failed, sent |-> failed # "send"]
                        /\ ipc' = "billed"
                        /\ UNCHANGED <<run, tickVars, iblock>>
    /\ UNCHANGED <<chainVars, tdb, ai, nextTurn, peers, ierr, pnode,
                   stash, tasks, heights, vcall, clock, fcall, bwin>>

(* The rounds in which every step succeeds. *)
IngestDone == IngestDoneWith({""})

IngestDoneFailing == IngestDoneWith(BillFailures)

(* processBlocks after the AddTx call: back to the select. *)
BillingDone ==
    /\ ipc = "billed"
    /\ ipc' = "idle" /\ iblock' = NilBlock
    /\ bill' = NoBill
    /\ UNCHANGED <<chainVars, tdb, ai, nextTurn, peers, run, ierr, pnode,
                   stash, tasks, heights, tickVars, vcall, clock, fcall, bwin>>

(* processBlocks after CheckAndPushNewBlock returned an error: the error   *)
(* is logged and the loop goes on.                                         *)
IngestFailed ==
    /\ ipc = "failed"
    /\ ipc' = "idle" /\ iblock' = NilBlock /\ ierr' = ""
    /\ UNCHANGED <<chainVars, tdb, ai, nextTurn, peers, run, pnode,
                   stash, tasks, heights, tickVars, vcall, clock, auxVars>>

(* processBlocks, case h := <-c.heights: hand the stash to a returnStash goroutine. *)
IngestHeight ==
    /\ run \in {"up", "stopping"} /\ ipc = "idle"
    /\ heights # <<>>
    /\ heights' = Tail(heights)
    /\ IF stash # <<>>
       THEN tasks' = Append(tasks, stash) /\ stash' = <<>>
       ELSE UNCHANGED <<tasks, stash>>
    /\ UNCHANGED <<chainVars, tdb, ai, nextTurn, peers, run, ingestVars, tickVars, vcall, clock, auxVars>>

(***************************************************************************)
(* The tick loop.  runCurrentTurn runs when the clock has reached the      *)
(* target of next-turn (nextTick); the time it is given is that target.    *)
(* Bound: turns 1..MaxTurn are run.                                        *)
(***************************************************************************)
(* produceBlock up to the send on c.blocks: CommitEx returns frs failed    *)
(* requests and the query txs txs; with neither, no block is produced.     *)
producedBlock(hd, a, now, frs, txs) ==
    NewBlock(hd.Head, Server, now, frs, txs, ai_acks(a, getHeightFromTime(now)))

TickRunWith(Failed, TxSets) ==
    /\ run = "up" /\ tpc = "idle"
    /\ nextTurn <= MaxTurn
    /\ IF isMyTurn(nextTurn, peers)
       THEN \E frs \in Failed, txs \in TxSets :
               IF frs = 0 /\ txs = {}
               THEN tpc' = "defer" /\ UNCHANGED tblock
               ELSE /\ tpc' = "send"
                    /\ tblock' = producedBlock(head, ai, TurnTime(nextTurn), frs, txs)
       ELSE tpc' = "defer" /\ UNCHANGED tblock
    /\ clock' = IF clock < nextTurn THEN nextTurn ELSE clock
    /\ UNCHANGED <<chainVars, tdb, ai, nextTurn, peers, run, ingestVars,
                   stash, tasks, heights, vcall, auxVars>>

TickRun == TickRunWith(0..MaxFailed, {{}})

TickRunTx == TickRunWith({0}, {{}, {RespA}})

(* The turns of a server that has no queries: no block is produced. *)
TickQuiet == TickRunWith({0}, {{}})

(* A faulty deferred part: next-turn stays while the head is below the     *)
(* turn that has just run.                                                 *)
TickAdvance_Stall ==
    /\ tpc = "defer"
    /\ index' = pruneBlockCache(index, pnode, head.node)
    /\ nextTurn' = IF head.Height < nextTurn - 1 THEN nextTurn ELSE nextTurn + 1
    /\ ai' = ai_advance(ai, getMinValidHeight(head))
    /\ tpc' = "notify"
    /\ UNCHANGED <<store, tdb, head, peers, run, ingestVars, stash, tasks, heights,
                   tblock, vcall, clock, auxVars>>

(* The deferred part of runCurrentTurn, up to the send on c.heights. *)
TickAdvance ==
    /\ tpc = "defer"
    /\ index' = pruneBlockCache(index, pnode, head.node)
    /\ nextTurn' = nextTurn + 1
    /\ ai' = ai_advance(ai, getMinValidHeight(head))
    /\ tpc' = "notify"
    /\ UNCHANGED <<store, tdb, head, peers, run, ingestVars, stash, tasks, heights,
                   tblock, vcall, clock, auxVars>>

(* c.heights <- head.Height: blocks while the buffer of one is full. *)
TickNotify ==
    /\ tpc = "notify"
    /\ Len(heights) < 1
    /\ heights' = Append(heights, head.Height)
    /\ tpc' = "idle"
    /\ UNCHANGED <<chainVars, tdb, ai, nextTurn, peers, run, ingestVars, stash, tasks,
                   tblock, vcall, clock, auxVars>>

(***************************************************************************)
(* Calls from the RPC service.                                             *)
(***************************************************************************)
CallAddResponse ==
    /\ run = "up"
    /\ \E r \in RpcResponses : ai' = AddResponse(ai, r)
    /\ UNCHANGED <<chainVars, tdb, nextTurn, peers, run, ingestVars, stash, tasks,
                   heights, tickVars, vcall, clock, auxVars>>

(* pushAckedQuery: register the ack, then put it in the query store under  *)
(* the height of its response timestamp.                                   *)
VerifyAndPushAckedQuery ==
    /\ run = "up" /\ ~vcall.busy
    /\ \E ack \in Acks :
          LET mv == getMinValidHeight(head)
          IN  IF queryTimeIsExpired(AckResponseTimestamp(ack), head)
              THEN /\ vcall' = [busy |-> TRUE, ack |-> ack, minValid |-> mv,
                                err |-> "ErrQueryExpired"]
                   /\ UNCHANGED <<ai, tdb>>
              ELSE IF ~registerOk(ai, ack)
              THEN /\ vcall' = [busy |-> TRUE, ack |-> ack, minValid |-> mv,
                                err |-> "ErrRegister"]
                   /\ UNCHANGED <<ai, tdb>>
              ELSE /\ ai' = register(ai, ack)
                   /\ \/ /\ tdb' = tdb \cup {<<getHeightFromTime(AckResponseTimestamp(ack)), ack>>}
                         /\ vcall' = [busy |-> TRUE, ack |-> ack, minValid |-> mv, err |-> ""]
                      \/ /\ vcall' = [busy |-> TRUE, ack |-> ack, minValid |-> mv,
                                      err |-> "ErrStorage"]
                         /\ UNCHANGED tdb
    /\ UNCHANGED <<chainVars, nextTurn, peers, run, ingestVars, stash, tasks,
                   heights, tickVars, clock, auxVars>>

(* The caller has taken the result. *)
AckedQueryReturn ==
    /\ vcall.busy
    /\ vcall' = NoCall
    /\ UNCHANGED <<chainVars, tdb, ai, nextTurn, peers, run, ingestVars, stash, tasks,
                   heights, tickVars, clock, auxVars>>

(* FetchBlock and FetchBlockByCount, called by the RPC service for a peer: *)
(* heights and counts around those of the chain; the reads of the store    *)
(* succeed.                                                                *)
FetchArgs == -1..(MaxTurn + 1)

CallFetchBlock ==
    /\ run = "up" /\ ~fcall.busy
    /\ \E h \in FetchArgs :
          LET r == FetchBlock(head, index, pnode, store, h, FALSE)
          IN  fcall' = [busy |-> TRUE, op |-> "FetchBlock", arg |-> h,
                        block |-> r.block, err |-> r.err,
                        realCount |-> r.realCount, height |-> r.height]
    /\ UNCHANGED <<chainVars, tdb, ai, nextTurn, peers, run, ingestVars, stash, tasks,
                   heights, tickVars, vcall, clock, bill, bwin>>

CallFetchBlockByCount ==
    /\ run = "up" /\ ~fcall.busy
    /\ \E c \in FetchArgs :
          LET r == FetchBlockByCount(head, index, pnode, store, c, FALSE)
          IN  fcall' = [busy |-> TRUE, op |-> "FetchBlockByCount", arg |-> c,
                        block |-> r.block, err |-> r.err,
                        realCount |-> r.realCount, height |-> r.height]
    /\ UNCHANGED <<chainVars, tdb, ai, nextTurn, peers, run, ingestVars, stash, tasks,
                   heights, tickVars, vcall, clock, bill, bwin>>

(* The caller has taken the result. *)
FetchReturn ==
    /\ fcall.busy
    /\ fcall' = NoFetch
    /\ UNCHANGED <<chainVars, tdb, ai, nextTurn, peers, run, ingestVars, stash, tasks,
                   heights, tickVars, vcall, clock, bill, bwin>>

(***************************************************************************)
(* billing on its own, on the views of a node and its ancestors, the node  *)
(* first.  Bound: MaxWindow blocks, each with at most one query tx and one *)
(* failed request.                                                         *)
(***************************************************************************)
MaxWindow == 3

BillTxs ==
    {[user |-> u, miner |-> m, read |-> TRUE, rowCount |-> 2, affectedRows |-> 1] :
        u \in BillUsers, m \in {"p1", "p2"}}
    \cup {[user |-> "u1", miner |-> "p1", read |-> FALSE, rowCount |-> 2, affectedRows |-> 1]}

BillViews ==
    [signee : {"p1", "p2"},
     QueryTxs : {<<>>} \cup {<<t>> : t \in BillTxs},
     FailedReqs : {<<>>, <<[user |-> "u1", queries |-> 1]>>}]

Windows == UNION {[1..n -> BillViews] : n \in 1..MaxWindow}

InitBilling == InitChain /\ bwin \in Windows

BillingCall ==
    /\ bwin # <<>> /\ ~bill.busy
    /\ bill' = [busy |-> TRUE, ub |-> billing(bwin), failed |-> "", sent |-> FALSE]
    /\ UNCHANGED <<chainVars, tdb, ai, nextTurn, peers, run, ingestVars, stash, tasks,
                   heights, tickVars, vcall, clock, fcall, bwin>>

(* The caller has taken the UpdateBilling. *)
BillingTaken ==
    /\ bwin # <<>> /\ bill.busy
    /\ bill' = NoBill
    /\ UNCHANGED <<chainVars, tdb, ai, nextTurn, peers, run, ingestVars, stash, tasks,
                   heights, tickVars, vcall, clock, fcall, bwin>>

(* UpdatePeers: the peer list is swapped. *)
UpdatePeers ==
    /\ run = "up"
    /\ \E pl \in PeerLists \ {peers} : peers' = pl
    /\ UNCHANGED <<chainVars, tdb, ai, nextTurn, run, ingestVars, stash, tasks,
                   heights, tickVars, vcall, clock, auxVars>>

(***************************************************************************)
(* Stop: the context is cancelled, the workers return (the ingest loop     *)
(* from its select, the tick loop from its loop head or from the send of   *)
(* produceBlock), the stores are closed.  The files stay.                  *)
(***************************************************************************)
Stop ==
    /\ run = "up" /\ ipc = "idle" /\ tpc \in {"idle", "send"}
    /\ run' = "down"
    /\ tpc' = "idle" /\ tblock' = NilBlock
    /\ stash' = <<>> /\ tasks' = <<>> /\ heights' = <<>>
    /\ vcall' = NoCall
    /\ UNCHANGED <<chainVars, tdb, ai, nextTurn, peers, ingestVars, clock, auxVars>>

(***************************************************************************)
(* Stop, step by step.  rt.stop cancels the context (run = "stopping") and *)
(* waits for the workers.  The ingest loop returns from its select, a      *)
(* returnStash goroutine from its select, the tick loop from the head of   *)
(* its loop; a produceBlock that is sending gives up and runCurrentTurn    *)
(* goes on with its deferred part.  A select takes any case that is ready: *)
(* a cancelled worker may still take a block or a height.  When every      *)
(* worker has returned the stores are closed.                              *)
(***************************************************************************)
Cancel ==
    /\ run = "up" /\ tpc # "sync"
    /\ run' = "stopping"
    /\ UNCHANGED <<chainVars, tdb, ai, nextTurn, peers, ingestVars, stash, tasks,
                   heights, tickVars, vcall, clock, auxVars>>

(* processBlocks, case <-ctx.Done(). *)
IngestExit ==
    /\ run = "stopping" /\ ipc = "idle"
    /\ ipc' = "exit"
    /\ UNCHANGED <<chainVars, tdb, ai, nextTurn, peers, run, iblock, ierr, pnode,
                   stash, tasks, heights, tickVars, vcall, clock, auxVars>>

(* returnStash, case <-ctx.Done(). *)
TaskExit ==
    /\ run = "stopping" /\ tasks # <<>>
    /\ tasks' = Tail(tasks)
    /\ UNCHANGED <<chainVars, tdb, ai, nextTurn, peers, run, ingestVars, stash,
                   heights, tickVars, vcall, clock, auxVars>>

(* mainCycle, case <-ctx.Done(). *)
TickExit ==
    /\ run = "stopping" /\ tpc = "idle"
    /\ tpc' = "exit"
    /\ UNCHANGED <<chainVars, tdb, ai, nextTurn, peers, run, ingestVars, stash, tasks,
                   heights, tblock, vcall, clock, auxVars>>

(* produceBlock, case <-c.rt.ctx.Done(): the block is given up. *)
TickAbort ==
    /\ run = "stopping" /\ tpc = "send"
    /\ tpc' = "defer" /\ tblock' = NilBlock
    /\ UNCHANGED <<chainVars, tdb, ai, nextTurn, peers, run, ingestVars, stash, tasks,
                   heights, vcall, clock, auxVars>>

(* rt.stop returns: the stores are closed. *)
StopDone ==
    /\ run = "stopping" /\ ipc = "exit" /\ tpc = "exit" /\ tasks = <<>>
    /\ run' = "down"
    /\ ipc' = "idle" /\ tpc' = "idle"
    /\ stash' = <<>> /\ heights' = <<>>
    /\ vcall' = NoCall /\ fcall' = NoFetch
    /\ UNCHANGED <<chainVars, tdb, ai, nextTurn, peers, iblock, ierr, pnode, tasks,
                   tblock, clock, bill, bwin>>

(***************************************************************************)
(* The process ends inside pushBlock: before the Put, between the Put and  *)
(* setHead, between setHead and addBlock, or in the loops over the block's *)
(* queries and acks.  The files stay as they are; the workers and all of   *)
(* the memory state but the files are gone.                                *)
(***************************************************************************)
Crash ==
    /\ run = "up" /\ ipc \in {"put", "sethead", "addblock", "acks"}
    /\ run' = "down"
    /\ ipc' = "idle" /\ pnode' = NilNode /\ ierr' = ""
    /\ tpc' = "idle" /\ tblock' = NilBlock
    /\ stash' = <<>> /\ tasks' = <<>> /\ heights' = <<>>
    /\ vcall' = NoCall
    /\ UNCHANGED <<chainVars, tdb, ai, nextTurn, peers, iblock, clock, auxVars>>

(***************************************************************************)
(* NewChainWithContext on the files of a stopped chain, then Start.  The   *)
(* new runtime starts at next-turn 1 with the configured peers and an      *)
(* empty ack index.  Start spawns the ingest loop and calls sync, which    *)
(* returns when next-turn is above the height of the clock and otherwise   *)
(* calls syncHead for ever (tpc = "sync": the tick loop is never spawned). *)
(***************************************************************************)
Restart ==
    /\ run = "down"
    /\ LET r == LoadBlocks(blockIter(store), {}, NilNode)
       IN  IF r.err # ""
           THEN /\ run' = "failed"
                /\ UNCHANGED <<index, head, ai, nextTurn, peers, tpc>>
           ELSE /\ run' = "up"
                /\ head' = NewHead(r.last)
                /\ index' = pruneBlockCache(r.idx, NilNode, r.last.hash)
                /\ ai' = EmptyAckIndex
                /\ nextTurn' = 1
                /\ peers' = InitPeers
                /\ tpc' = IF 1 > clock THEN "idle" ELSE "sync"
    /\ UNCHANGED <<store, tdb, ingestVars, stash, tasks, heights, tblock, vcall, clock, auxVars>>

(* sync, the inner loop: while next-turn <= height-of(now), syncHead.      *)
(* syncHead asks the peers for the block of height next-turn - 1 when the  *)
(* head is below it and hands the reply to the ingest loop; it leaves      *)
(* next-turn as it is.                                                     *)
SyncHead ==
    /\ run = "up" /\ tpc = "sync"
    /\ nextTurn <= clock
    /\ IF head.Height < nextTurn - 1
       THEN \/ \E b \in SlotBlocks : Recv(b)
            \/ UNCHANGED <<ingestVars, stash>>
       ELSE UNCHANGED <<ingestVars, stash>>
    /\ UNCHANGED <<chainVars, tdb, ai, nextTurn, peers, run, tasks, heights, tickVars,
                   vcall, clock, auxVars>>

(***************************************************************************)
(* The steps of the ingest loop.                                           *)
(***************************************************************************)
Ingest ==
    \/ RecvProduced \/ RecvStash
    \/ IngestPast \/ CheckAndPushNewBlock
    \/ PushPut \/ PushSetHead \/ PushAddBlock \/ PushAcks
    \/ IngestDone \/ BillingDone \/ IngestFailed \/ IngestHeight

(* The steps of the ingest loop, any step of a billing round failing. *)
IngestRound ==
    \/ RecvProduced \/ RecvStash
    \/ IngestPast \/ CheckAndPushNewBlock
    \/ PushPut \/ PushSetHead \/ PushAddBlock \/ PushAcks
    \/ IngestDoneFailing \/ BillingDone \/ IngestFailed \/ IngestHeight

Tick == TickRun \/ TickAdvance \/ TickNotify

(* The steps of the ingest loop on the blocks of the peers. *)
IngestPeer ==
    \/ IngestPast \/ CheckAndPushNewBlock
    \/ PushPut \/ PushSetHead \/ PushAddBlock \/ PushAcks
    \/ IngestDone \/ BillingDone \/ IngestFailed \/ IngestHeight

(***************************************************************************)
(* Spec: the chain under any blocks of its peers (headers varied), its own *)
(* production and peer list updates.                                       *)
(***************************************************************************)
Next ==
    \/ RecvAdvised
    \/ Ingest
    \/ Tick
    \/ UpdatePeers

Spec == Init /\ [][Next]_vars

(***************************************************************************)
(* SpecRestart: the chain under signed blocks of its peers, several to a   *)
(* turn, its own production, Stop and re-Start.                            *)
(***************************************************************************)
NextRestart ==
    \/ RecvAdvisedSlot
    \/ Ingest
    \/ Tick
    \/ Stop \/ Restart

SpecRestart == Init /\ [][NextRestart]_vars

(***************************************************************************)
(* SpecLive: the chain under signed blocks of its peers and its own        *)
(* production, stopped step by step and started again.  Every worker that  *)
(* can take a step takes one in the end; the peers, the clock and the      *)
(* caller of Stop may stay silent.                                         *)
(***************************************************************************)
NextLive ==
    \/ RecvAdvisedHead
    \/ Ingest
    \/ Tick
    \/ Cancel \/ IngestExit \/ TaskExit \/ TickExit \/ TickAbort \/ StopDone
    \/ Restart \/ SyncHead

Fairness ==
    /\ WF_vars(Ingest \/ IngestExit)
    /\ WF_vars(TickAdvance \/ TickNotify \/ TickExit \/ TickAbort)
    /\ WF_vars(TaskExit)
    /\ WF_vars(StopDone)
    /\ WF_vars(SyncHead)

SpecLive == Init /\ [][NextLive]_vars /\ Fairness

(***************************************************************************)
(* SpecBilling: billing called on every window of the bound.               *)
(***************************************************************************)
NextBilling == BillingCall \/ BillingTaken

SpecBilling == InitBilling /\ [][NextBilling]_vars

(***************************************************************************)
(* SpecRound: the chain under signed blocks on its head, stored blocks     *)
(* advised again and its own production, with billing rounds of which any  *)
(* step may fail.                                                          *)
(***************************************************************************)
NextRound ==
    \/ RecvAdvisedHead \/ RecvAdvisedAgain
    \/ IngestRound
    \/ TickRunTx \/ TickAdvance \/ TickNotify

SpecRound == Init /\ [][NextRound]_vars

(***************************************************************************)
(* SpecStash: the chain under blocks of its peers that are ahead of its    *)
(* clock, and its own production: the stash and its return.                *)
(***************************************************************************)
NextStash ==
    \/ RecvAdvisedFuture
    \/ Ingest
    \/ Tick

SpecStash == Init /\ [][NextStash]_vars

(***************************************************************************)
(* SpecCrash: the chain under signed blocks of its peers, several to a     *)
(* turn, and its own production; the process may end inside pushBlock and  *)
(* is then started again on the same files.                                *)
(***************************************************************************)
NextCrash ==
    \/ RecvAdvisedSlot
    \/ Ingest
    \/ Tick
    \/ Crash \/ Restart

SpecCrash == Init /\ [][NextCrash]_vars

(***************************************************************************)
(* SpecFetch: the chain under signed blocks on its head, several to a      *)
(* turn, the server having no queries to produce blocks of, read by        *)
(* FetchBlock and FetchBlockByCount.                                       *)
(***************************************************************************)
NextFetch ==
    \/ RecvAdvisedHead
    \/ IngestPeer
    \/ TickQuiet \/ TickAdvance \/ TickNotify
    \/ CallFetchBlock \/ CallFetchBlockByCount \/ FetchReturn

SpecFetch == Init /\ [][NextFetch]_vars

(***************************************************************************)
(* SpecAck: the chain with the ack index in use: responses added and acks  *)
(* pushed by the RPC service, blocks (of the peers and its own) that carry *)
(* query txs and acks.                                                     *)
(***************************************************************************)
NextAck ==
    \/ RecvAdvisedTx
    \/ Ingest
    \/ TickRunTx \/ TickAdvance \/ TickNotify
    \/ CallAddResponse \/ VerifyAndPushAckedQuery \/ AckedQueryReturn

SpecAck == Init /\ [][NextAck]_vars

(***************************************************************************)
(* SpecAckTurn: SpecAck for the chain whose server produces in the turn    *)
(* after its peer's.                                                       *)
(***************************************************************************)
SpecAckTurn == InitSecond /\ [][NextAck]_vars

(***************************************************************************)
(* Properties.                                                             *)
(***************************************************************************)
GenesisHash == GenesisBlock.hash

(* A step of the ingest loop that returns from the checks of               *)
(* CheckAndPushNewBlock on the block it holds.                             *)
CheckStep == ipc = "capnb" /\ ipc' # "capnb"

Rejected(err) == ipc' = "failed" /\ ierr' = err /\ UNCHANGED chainVars

IsHeadBlock(b) == head.Height = getHeightFromTime(b.ts) /\ head.Head = b.hash

(* C1: every node of the block index other than genesis has its parent in  *)
(* the index, the stored block of the node names that parent in its        *)
(* ParentHash, and the count of the node is the count of the parent plus   *)
(* one; the count of genesis is 0.  It holds after every push and after    *)
(* the rebuild of the index on a re-Start.                                 *)
C1_IndexLinked ==
    \A n \in index :
        IF n.hash = GenesisHash THEN n.count = 0
        ELSE /\ \E pn \in index : pn.hash = n.parent /\ n.count = pn.count + 1
             /\ \E b \in store : b.hash = n.hash
             /\ \A b \in store : b.hash = n.hash => b.parent = n.parent

(* C1 at work: a chain of two blocks on genesis that has been rebuilt by a *)
(* re-Start.                                                               *)
C1_Witness ==
    /\ run = "up" /\ tpc = "sync"
    /\ \E n \in index : n.count = 2 /\ n.hash = head.node

(* C2: in every state the head is a node of the block index, and the hash  *)
(* and height of the head are those of that node.                          *)
C2_HeadIndexed ==
    \E n \in index : n.hash = head.node /\ head.Head = n.hash /\ head.Height = n.height

(* C3, as amended: a block whose ParentHash is not the head hash, and      *)
(* which does not carry the hash of the head at the height of the head, is *)
(* rejected with ErrInvalidBlock, and head, index and store stay.          *)
C3_ParentMismatchRejected ==
    [][(CheckStep /\ iblock.parent # head.Head /\ ~IsHeadBlock(iblock))
          => Rejected("ErrInvalidBlock")]_vars

(* C3 at work: a signed block of the expected producer on a parent that is *)
(* not the head has been rejected with ErrInvalidBlock.                    *)
C3_Witness ==
    /\ ipc = "failed" /\ ierr = "ErrInvalidBlock"
    /\ iblock.parent # head.Head /\ Verify(iblock)
    /\ Find(peers, iblock.producer) = (nextTurn - 1) % Len(peers)

(* C3 as stated: every block whose ParentHash is not the head hash is      *)
(* rejected with ErrInvalidBlock.                                          *)
C3_AsStated ==
    [][(CheckStep /\ iblock.parent # head.Head) => Rejected("ErrInvalidBlock")]_vars

(* The rotation slot CheckAndPushNewBlock expects, -1 with no peers. *)
ExpectedSlot == IF Len(peers) > 0 THEN (nextTurn - 1) % Len(peers) ELSE -1

OnHeadSigned(b) == b.parent = head.Head /\ Verify(b)

(* C4, as amended: a signed block on the head whose producer is a member   *)
(* of the peer list other than the local server, and is not at the         *)
(* expected rotation slot, is rejected with ErrInvalidProducer and is not  *)
(* pushed.                                                                 *)
C4_WrongSlotRejected ==
    [][(/\ CheckStep /\ OnHeadSigned(iblock)
        /\ iblock.producer # Server
        /\ Find(peers, iblock.producer) >= 0
        /\ Find(peers, iblock.producer) # ExpectedSlot)
          => Rejected("ErrInvalidProducer")]_vars

(* C4 at work: a signed block on the head by a member at another slot has  *)
(* been rejected with ErrInvalidProducer.                                  *)
C4_Witness ==
    /\ ipc = "failed" /\ ierr = "ErrInvalidProducer"
    /\ OnHeadSigned(iblock)
    /\ Find(peers, iblock.producer) >= 0
    /\ Find(peers, iblock.producer) # ExpectedSlot

(* C4 as stated, for the producers the rotation can name (the members of  *)
(* the peer list and the local server): a signed block on the head whose   *)
(* producer is not the peer at the expected rotation slot is rejected with *)
(* ErrInvalidProducer and is not pushed.                                   *)
C4_AsStated ==
    [][(/\ CheckStep /\ OnHeadSigned(iblock)
        /\ (iblock.producer = Server \/ Find(peers, iblock.producer) >= 0)
        /\ Find(peers, iblock.producer) # ExpectedSlot)
          => Rejected("ErrInvalidProducer")]_vars

(* C5, as amended: a signed block on the head whose producer is neither    *)
(* the local server nor a member of the peer list is rejected with         *)
(* ErrUnknownProducer, and head, index and store stay.                     *)
C5_UnknownProducerRejected ==
    [][(/\ CheckStep /\ OnHeadSigned(iblock)
        /\ iblock.producer # Server
        /\ Find(peers, iblock.producer) < 0)
          => Rejected("ErrUnknownProducer")]_vars

(* C5 at work: a signed block on the head by a node outside the peer list  *)
(* has been rejected with ErrUnknownProducer.                              *)
C5_Witness ==
    /\ ipc = "failed" /\ ierr = "ErrUnknownProducer"
    /\ OnHeadSigned(iblock)
    /\ Find(peers, iblock.producer) < 0

(* C5 as stated: a signed block on the head whose producer is not a member *)
(* of the peer list is rejected with ErrUnknownProducer, and head, index   *)
(* and store stay.                                                         *)
C5_AsStated ==
    [][(/\ CheckStep /\ OnHeadSigned(iblock)
        /\ Find(peers, iblock.producer) < 0)
          => Rejected("ErrUnknownProducer")]_vars

(* An ack whose request height is below the min-valid height the call of   *)
(* VerifyAndPushAckedQuery has read.                                       *)
RequestExpired(call) == getHeightFromTime(AckRequestTimestamp(call.ack)) < call.minValid

(* C6, its second half (which the first implies): a call of                *)
(* VerifyAndPushAckedQuery with an ack whose request height is below       *)
(* head.height - query-TTL registers nothing and writes nothing: it        *)
(* returns ErrQueryExpired, or the error of a register that found no       *)
(* response.                                                               *)
C6_ExpiredRequestNotAccepted ==
    (vcall.busy /\ RequestExpired(vcall)) => vcall.err \in {"ErrQueryExpired", "ErrRegister"}

(* The server's own signed blocks that are in the block index. *)
OwnApplied(b) == b.producer = Server /\ Verify(b) /\ b.hash \in Hashes(index)

(* A step of the ingest loop on a block that was applied before it was     *)
(* delivered: the delivery itself, or any later step but the last step of  *)
(* a push (which a first application alone reaches with the block in the   *)
(* index).                                                                 *)
RedeliveryStep ==
    \/ ipc = "idle" /\ ipc' = "past" /\ OwnApplied(iblock')
    \/ /\ ipc \in {"past", "capnb", "put", "sethead", "addblock", "pushed", "applied",
                  "billed", "failed"}
       /\ ipc' # ipc
       /\ OwnApplied(iblock)

(* C7: a block the server has produced and applied, delivered again, is    *)
(* a no-op whenever it is delivered: no step of the ingest loop on it      *)
(* changes head, block index, block store or ack index.                    *)
C7_RedeliveryNoOp ==
    [][RedeliveryStep => UNCHANGED <<head, index, store, ai>>]_vars

(* C7 at work: a block of the server that is in the index, but is no       *)
(* longer the head, has come again and has been turned down.               *)
C7_Witness ==
    /\ ipc = "failed" /\ ierr = "ErrInvalidBlock"
    /\ OwnApplied(iblock) /\ iblock # GenesisBlock
    /\ head.Head # iblock.hash

(* C8: a re-Start on the files of a stopped chain succeeds, and the head   *)
(* hash and the set of hashes of the block index are those before Stop.    *)
C8_RestartRebuilds ==
    [][(run = "down" /\ run' # "down")
          => (run' = "up" /\ head'.Head = head.Head /\ Hashes(index') = Hashes(index))]_vars

(* C9: a failed application (an error of the checks of                     *)
(* CheckAndPushNewBlock, or of the Put of pushBlock) is reached with head, *)
(* block index and block store as at the call, and the ingest loop then    *)
(* goes back to its select with them unchanged.                            *)
C9_FailureLeavesChain ==
    [][/\ (ipc # "failed" /\ ipc' = "failed")
            => (ipc \in {"capnb", "put"} /\ UNCHANGED chainVars)
       /\ (ipc = "capnb" /\ ipc' = "put") => UNCHANGED chainVars
       /\ (ipc = "failed" /\ ipc' # "failed")
            => (ipc' = "idle" /\ run' = "up" /\ UNCHANGED chainVars)]_vars

(* C9 at work: the Put of pushBlock has failed on a block that passed the  *)
(* checks.                                                                 *)
C9_Witness ==
    /\ ipc = "failed" /\ ierr = "ErrStorage"
    /\ iblock.parent = head.Head /\ iblock \notin store

C11_BucketsValid ==
    \A e \in ai.resps \cup ai.acks : e[1] >= getMinValidHeight(head)

(* The nodes of the main chain: the head's node and its ancestors. *)
RECURSIVE ChainFrom(_)
ChainFrom(ptr) ==
    LET n == nodeOf(index, pnode, ptr)
    IN  IF n = NilNode THEN {} ELSE {n} \cup ChainFrom(n.parent)

MainChain == ChainFrom(head.node)

(* A call of op that returns in this step. *)
Fetched(op) == ~fcall.busy /\ fcall'.busy /\ fcall'.op = op

(* C12: FetchBlock(h) returns, without error, the stored block of the      *)
(* main-chain node that is the latest (of the greatest count) among the    *)
(* head and its ancestors of height at most h, the block's hash being the  *)
(* node's; when no node of the chain has height at most h it returns no    *)
(* block and no error.                                                     *)
C12_FetchBlockLatest ==
    [][Fetched("FetchBlock") =>
          LET C == {n \in MainChain : n.height <= fcall'.arg}
          IN  /\ fcall'.err = ""
              /\ IF C = {} THEN fcall'.block = NilBlock
                 ELSE \E n \in C :
                         /\ \A m \in C : m.count <= n.count
                         /\ fcall'.block \in store
                         /\ fcall'.block.hash = n.hash]_vars

(* FetchBlock has returned the block of an ancestor below the height asked *)
(* for, the chain having skipped that height.                              *)
C12_Witness ==
    /\ fcall.busy /\ fcall.op = "FetchBlock"
    /\ fcall.arg < head.Height
    /\ fcall.block \in store
    /\ getHeightFromTime(fcall.block.ts) < fcall.arg

(* C13: FetchBlockByCount(c) returns, for 0 <= c <= head.count, the stored *)
(* block of the one main-chain node of count c, with realCount = c and the *)
(* height of that node; for c < 0 the block of the head with the count of  *)
(* the head; for c above the count of the head no block.                   *)
C13_FetchByCountExact ==
    [][Fetched("FetchBlockByCount") =>
          LET c == fcall'.arg
              hn == nodeOf(index, pnode, head.node)
              C == {n \in MainChain : n.count = c}
          IN  /\ fcall'.err = ""
              /\ c < 0 => /\ fcall'.block \in store
                          /\ fcall'.block.hash = head.Head
                          /\ fcall'.realCount = hn.count
              /\ c > hn.count => fcall'.block = NilBlock
              /\ (0 <= c /\ c <= hn.count) =>
                    /\ Cardinality(C) = 1
                    /\ \E n \in C :
                          /\ fcall'.block \in store
                          /\ fcall'.block.hash = n.hash
                          /\ fcall'.realCount = c
                          /\ fcall'.height = n.height]_vars

(* FetchBlockByCount has returned a block below the head; and it has       *)
(* returned no block for a count above the head's.                         *)
C13_Witness ==
    /\ fcall.busy /\ fcall.op = "FetchBlockByCount"
    /\ fcall.arg >= 0 /\ fcall.realCount = fcall.arg
    /\ fcall.block \in store /\ fcall.block.hash # head.Head
    /\ fcall.height < head.Height

(* C14: Stop terminates: once the context is cancelled, the ingest loop,   *)
(* the tick loop and every returnStash goroutine return and rt.stop        *)
(* returns, from every state.                                              *)
C14_StopTerminates == (run = "stopping") ~> (run = "down")

(* C15: Start gets past its catch-up: a Start that has entered the loop of *)
(* sync leaves it, and the tick loop is spawned.                           *)
C15_StartPassesSync == (run = "up" /\ tpc = "sync") ~> (tpc # "sync")

(* What the blocks of the window owe miner m on behalf of user u: rowCount *)
(* of the user's read queries answered by m, affectedRows of the user's    *)
(* other queries answered by m, len(queries) of the user's failed requests *)
(* in the blocks signed by m.                                              *)
RECURSIVE OwedTxs(_, _, _)
OwedTxs(txs, u, m) ==
    IF txs = <<>> THEN 0
    ELSE (IF Head(txs).user = u /\ Head(txs).miner = m
          THEN IF Head(txs).read THEN Head(txs).rowCount ELSE Head(txs).affectedRows
          ELSE 0) + OwedTxs(Tail(txs), u, m)

RECURSIVE OwedFailed(_, _)
OwedFailed(reqs, u) ==
    IF reqs = <<>> THEN 0
    ELSE (IF Head(reqs).user = u THEN Head(reqs).queries ELSE 0) + OwedFailed(Tail(reqs), u)

RECURSIVE Owed(_, _, _, _)
Owed(views, i, u, m) ==
    IF i >= UpdatePeriod \/ views = <<>> THEN 0
    ELSE OwedTxs(Head(views).QueryTxs, u, m)
         + (IF Head(views).signee = m THEN OwedFailed(Head(views).FailedReqs, u) ELSE 0)
         + Owed(Tail(views), i + 1, u, m)

(* What an UpdateBilling credits miner m on behalf of user u. *)
Credited(ub, u, m) ==
    IF u \in DOMAIN ub.users /\ m \in DOMAIN ub.users[u].miners
    THEN ub.users[u].miners[m] ELSE 0

(* C16: the UpdateBilling of a window credits every (user, miner) pair     *)
(* exactly what the blocks of the window owe it; nothing credited earlier  *)
(* in the walk is lost.                                                    *)
C16_MinerSumsExact ==
    (bill.busy /\ bwin # <<>>) =>
        \A u \in BillUsers, m \in Nodes : Credited(bill.ub, u, m) = Owed(bwin, 0, u, m)

(* A billing round of the ingest loop starts in this step. *)
RoundStarts == bwin = <<>> /\ ~bill.busy /\ bill'.busy

(* C17: a billing round is run only after a head extension: the ingest     *)
(* loop has just pushed the block it holds, and a block that did not       *)
(* extend the head (treated as already applied) starts no round.           *)
C17_RoundOnlyOnExtension ==
    [][RoundStarts => ipc = "pushed"]_vars

(* C18: a round in which the aggregation, the nonce call or the signing    *)
(* fails stops there: no UpdateBilling is submitted, the ingest loop does  *)
(* not crash, and head, block index and block store stay as they are.      *)
C18_FailedRoundAborts ==
    [][(RoundStarts /\ bill'.failed \in {"read", "addr", "receiver", "nonce", "sign"}) =>
          /\ ~bill'.sent
          /\ run' # "crashed"
          /\ UNCHANGED chainVars]_vars

(* C19: every execution of runCurrentTurn ends with its deferred part:     *)
(* next-turn advances by exactly one, the ack index is advanced to the     *)
(* min-valid height, then the height of the head is pushed onto the        *)
(* height-advance channel, whether or not a block was produced; no other   *)
(* step changes next-turn.                                                 *)
C19_AdvanceOncePerTick ==
    [][/\ nextTurn' # nextTurn => tpc = "defer" /\ tpc' = "notify"
       /\ (tpc = "idle" /\ tpc' # "idle") => tpc' \in {"send", "defer"}
       /\ (tpc = "send" /\ tpc' # "send") => tpc' = "defer"
       /\ (tpc = "defer" /\ tpc' # "defer") =>
             /\ tpc' = "notify"
             /\ nextTurn' = nextTurn + 1
             /\ ai' = ai_advance(ai, getMinValidHeight(head))
       /\ (tpc = "notify" /\ tpc' # "notify") =>
             /\ tpc' = "idle"
             /\ nextTurn' = nextTurn
             /\ heights' = Append(heights, head.Height)]_vars

(* Two turns have run without a block: the head is still genesis, and the  *)
(* second turn has advanced next-turn and is about to push the height.     *)
C19_Witness ==
    /\ tpc = "notify"
    /\ nextTurn = 3
    /\ head.Height = 0

(* The blocks the server has produced in the turn that is running and that *)
(* are on their way through the ingest loop.                               *)
OwnInFlight ==
    {b \in {iblock} \cup {stash[i] : i \in 1..Len(stash)}
           \cup UNION {{tasks[i][j] : j \in 1..Len(tasks[i])} : i \in 1..Len(tasks)} :
        b.producer = Server /\ b.ts = TurnTime(nextTurn)}

(* C20: the ack-index advance of a turn runs only after the block produced *)
(* in that turn has been pushed and is the head.                           *)
C20_AdvanceAfterPush ==
    [][(tpc = "defer" /\ tpc' = "notify") =>
          \A b \in OwnInFlight : head.Head = b.hash]_vars

(* A returnStash goroutine hands a block to the ingest loop in this step. *)
StashReturned == Len(tasks') <= Len(tasks) /\ tasks' # tasks /\ run' = run

(* C21: stashed blocks come back in the order of their arrival: the block  *)
(* handed to the ingest loop is the first block of the oldest stash that   *)
(* is being returned, also when several stashes are being returned.        *)
C21_StashOrderKept ==
    [][StashReturned =>
          \/ tasks' = Tail(tasks)
          \/ tasks' = [tasks EXCEPT ![1] = Tail(@)]]_vars

(* C22: the ingest loop extends the head only with a block whose height is *)
(* next-turn - 1; a block above it goes to the stash and a block below it  *)
(* is dropped, head, block index, block store and ack index staying as     *)
(* they are; also when the tick loop advances next-turn between the reads. *)
C22_PushOnlyCurrentTurn ==
    [][/\ head' # head => getHeightFromTime(iblock.ts) = nextTurn - 1
       /\ Len(stash') > Len(stash) => UNCHANGED <<head, index, store, ai>>
       /\ (ipc = "past" /\ ipc' = "idle") => UNCHANGED <<head, index, store, ai>>]_vars

(* The stored block of a node of the index. *)
BlockOf(n) == CHOOSE b \in store : b.hash = n.hash

(* C23: every block in the block index but genesis was produced by the     *)
(* peer the rotation selects for the turn of its timestamp:                *)
(* producer = peers[height mod |peers|].                                   *)
C23_ProducerOfOwnTurn ==
    \A n \in index :
        n.hash # GenesisHash =>
            BlockOf(n).producer = peers[(n.height % Len(peers)) + 1]

(* Block b carries the tick time of a turn that is its producer's under    *)
(* the current peer list.                                                  *)
ProducedOnTurn(b) ==
    \E nt \in 1..(MaxTurn + 1) :
        /\ b.ts = TurnTime(nt)
        /\ Find(peers, b.producer) >= 0
        /\ (nt - 1) % Len(peers) = Find(peers, b.producer)

(* C24: a block a peer produced on a tick of its own turn (timestamp the   *)
(* tick time, parent the common head), advised to this peer under the same *)
(* peer list, is validated and pushed by the ingest loop:                  *)
(* CheckAndPushNewBlock does not reject it.                                *)
C24_TurnBlockAccepted ==
    [][(/\ ipc = "capnb"
        /\ iblock.producer # Server
        /\ iblock.valid
        /\ ProducedOnTurn(iblock)
        /\ iblock.parent = head.Head) => ipc' # "failed"]_vars

(* pruneBlockCache returns in this step: from the deferred part of a turn, *)
(* or from the construction of the chain at a start.                       *)
PrunedInTurn == tpc = "defer" /\ tpc' = "notify"
PrunedAtStart == run = "down" /\ run' = "up"

HeadCount == nodeOf(index, pnode, head.node).count

(* C25: pruneBlockCache removes no node from the block index and leaves    *)
(* the cached body of every main-chain node with count above head.count -  *)
(* blockCacheTTL as it was; when it has returned, no main-chain node with  *)
(* count at most head.count - blockCacheTTL has a cached body.             *)
C25_PruneKeepsRecent ==
    [][(PrunedInTurn \/ PrunedAtStart) =>
          /\ PrunedInTurn =>
                {[n EXCEPT !.block = TRUE] : n \in index'}
                    = {[n EXCEPT !.block = TRUE] : n \in index}
          /\ PrunedAtStart => \A b \in store : \E n \in index' : n.hash = b.hash
          /\ \A n \in MainChain' :
                n.count > HeadCount' - BlockCacheTTL =>
                    n.block = IF PrunedInTurn
                              THEN nodeOf(index, pnode, n.hash).block
                              ELSE TRUE
          /\ \A n \in MainChain' :
                n.count <= HeadCount' - BlockCacheTTL => ~n.block]_vars

(* The deferred part of a turn has pruned a chain of three nodes: the head *)
(* keeps its body, its ancestors have none.                                *)
C25_Witness ==
    /\ tpc = "notify"
    /\ HeadCount = 2
    /\ \A n \in MainChain : n.block <=> n.count = 2

(* C26: after the process has ended inside pushBlock, a start on the same  *)
(* files succeeds; a block pushBlock had written is accepted again and is  *)
(* the head; every stored block has its node and every node but genesis    *)
(* has its parent in the index.                                            *)
C26_RestartAfterCrash ==
    [][run = "down" =>
          /\ run' = "up"
          /\ iblock \in store => head'.Head = iblock.hash
          /\ \A b \in store : \E n \in index' : n.hash = b.hash
          /\ \A n \in index' :
                n.hash # GenesisHash => \E m \in index' : m.hash = n.parent]_vars

(* C27: the block produceBlock has built on the head it read carries no    *)
(* ack that this head's block or one of its ancestors carries, whatever    *)
(* position pushBlock is at.                                               *)
C27_NoAckTwice ==
    tpc = "send" =>
        \A n \in ChainFrom(tblock.parent) : BlockOf(n).acks \cap tblock.acks = {}

(* The sum of the incomes of the miners S of a Miners list. *)
RECURSIVE SumIncome(_, _)
SumIncome(miners, S) ==
    IF S = {} THEN 0
    ELSE LET m == CHOOSE x \in S : TRUE
         IN  miners[m] + SumIncome(miners, S \ {m})

(* C28: in the UpdateBilling of a window the Cost of every user is the sum *)
(* of the Incomes of the user's Miners list, and the list has an entry for *)
(* every miner that a block of the window credits for the user.            *)
C28_CostIsSumOfIncomes ==
    (bill.busy /\ bwin # <<>>) =>
        \A u \in DOMAIN bill.ub.users :
            LET uc == bill.ub.users[u]
            IN  /\ uc.cost = SumIncome(uc.miners, DOMAIN uc.miners)
                /\ \A m \in Nodes : Owed(bwin, 0, u, m) > 0 => m \in DOMAIN uc.miners

(* C29: heights strictly increase along the chain: every node of the index *)
(* but genesis is higher than its parent, and the key of its block orders  *)
(* after the key of its parent's block.                                    *)
C29_HeightsIncrease ==
    \A n \in index :
        LET p == lookupNode(index, n.parent)
        IN  (n.hash # GenesisHash /\ p # NilNode) =>
                /\ n.height > p.height
                /\ KeyLess(BlockOf(p), BlockOf(n))

====
